---- MODULE Spec2Model ----
(***************************************************************************)
(* Model of the two documentation sync pipelines of amplifier-skills-plugin *)
(* (scripts/sync_amplifier_core.py and scripts/sync_ddd.py).                *)
(*                                                                         *)
(* Text is modelled by TLA+ strings, on which Len, SubSeq and \o act        *)
(* character by character.  Definitions of sync_amplifier_core.py carry the *)
(* prefix core_, those of sync_ddd.py the prefix ddd_, where both scripts   *)
(* define the same name.                                                    *)
(***************************************************************************)
EXTENDS Integers, Sequences, FiniteSets, TLC

VARIABLES
    pipeline,    \* which script is run: "core" or "ddd"
    reachable,   \* whether `git clone` of SOURCE_REPO succeeds
    present,     \* paths (relative to the clone) that exist upstream
    text,        \* content of every upstream file
    rglob_order, \* order in which context_dir.rglob("*.md") yields files
    tree0,       \* destination files under PLUGIN_ROOT before the run
    dirs0,       \* destination directories under PLUGIN_ROOT before the run
    pc,          \* per run: position in main()
    files,       \* per run: destination files under PLUGIN_ROOT
    dirs,        \* per run: destination directories under PLUGIN_ROOT
    log,         \* per run: lines printed by the assembler steps
    tmp_dir,     \* per run: the TemporaryDirectory exists
    raised,      \* per run: the step whose exception is propagating
    status,      \* per run: process exit status (-1 while running)
    content,     \* text functions: the argument
    new_name,    \* text functions: second argument of update_frontmatter_name
    fn,          \* text functions: the function applied ("" before the call)
    result       \* text functions: the value returned

runvars == <<pc, files, dirs, log, tmp_dir, raised, status>>
envvars == <<pipeline, reachable, present, text, rglob_order, tree0, dirs0>>
textvars == <<content, new_name, fn, result>>
vars == <<envvars, runvars, textvars>>

----------------------------------------------------------------------------
(* Module-level constants of the two scripts.                              *)

core_CREDIT_COMMENT ==
    "<!--\n"
    \o "  Source: https://github.com/microsoft/amplifier-core\n"
    \o "  License: MIT\n"
    \o "  Auto-synced for Claude Code Plugin format\n"
    \o "-->\n"
    \o "\n"

PHILOSOPHY_FRONTMATTER ==
    "---\n"
    \o "name: amplifier-philosophy\n"
    \o "description: Amplifier design philosophy using Linux kernel metaphor. Covers mechanism vs policy, module architecture, event-driven design, and kernel principles. Use when designing new modules or making architectural decisions.\n"
    \o "version: 1.0.0\n"
    \o "license: MIT\n"
    \o "metadata:\n"
    \o "  category: architecture\n"
    \o "  complexity: medium\n"
    \o "  original_source: https://github.com/microsoft/amplifier-core/blob/main/docs/DESIGN_PHILOSOPHY.md\n"
    \o "---\n"
    \o "\n"

MODULE_DEV_FRONTMATTER ==
    "---\n"
    \o "name: module-development\n"
    \o "description: Guide for creating new Amplifier modules including protocol implementation, entry points, mount functions, and testing patterns. Use when creating new modules or understanding module architecture.\n"
    \o "version: 1.0.0\n"
    \o "license: MIT\n"
    \o "metadata:\n"
    \o "  category: development\n"
    \o "  complexity: medium\n"
    \o "  original_source: https://github.com/microsoft/amplifier-core/tree/main/docs/contracts\n"
    \o "---\n"
    \o "\n"

\* The grave accent used by the Markdown code spans of SKILL_MD_TEMPLATE;
\* it is taken out of a two-character literal because the lexer pairs a
\* grave accent with the next apostrophe.
Backtick ==
    SubSeq("`'", 1, 1)

ddd_CREDIT_COMMENT ==
    "<!--\n"
    \o "  Source: https://github.com/robotdad/amplifier-collection-ddd\n"
    \o "  License: MIT\n"
    \o "  Auto-converted for Claude Code Plugin format\n"
    \o "-->\n"
    \o "\n"

SKILL_MD_TEMPLATE ==
    "---\n"
    \o "name: ddd-guide\n"
    \o "description: Document-Driven Development workflow for existing codebases. Provides systematic planning, documentation-first design, and implementation verification.\n"
    \o "version: 1.0.0\n"
    \o "license: MIT\n"
    \o "metadata:\n"
    \o "  category: workflow\n"
    \o "  complexity: high\n"
    \o "  original_source: https://github.com/robotdad/amplifier-collection-ddd\n"
    \o "---\n"
    \o "\n"
    \o "# Document-Driven Development (DDD) Guide\n"
    \o "\n"
    \o "## Core Principle\n"
    \o "\n"
    \o "**Documentation IS the specification. Code implements what documentation describes.**\n"
    \o "\n"
    \o "DDD inverts traditional development: update documentation first, then implement code to match.\n"
    \o "\n"
    \o "## Why DDD?\n"
    \o "\n"
    \o "- **Catches design flaws early** - Before expensive code changes\n"
    \o "- **Prevents documentation drift** - Docs and code stay synchronized\n"
    \o "- **Enables human review** - Humans approve specs, not code\n"
    \o "- **AI-friendly** - Clear specifications reduce hallucination\n"
    \o "\n"
    \o "## Six-Phase Workflow\n"
    \o "\n"
    \o "| Phase | Name | Command | Deliverable |\n"
    \o "|-------|------|---------|-------------|\n"
    \o "| 0-1 | Planning | /ddd 1-plan | plan.md |\n"
    \o "| 2 | Documentation | /ddd 2-docs | Updated docs |\n"
    \o "| 3 | Code Planning | /ddd 3-code-plan | code_plan.md |\n"
    \o "| 4 | Implementation | /ddd 4-code | Working code |\n"
    \o "| 5-6 | Finalization | /ddd 5-finish | Tested, committed |\n"
    \o "\n"
    \o "## Core Techniques\n"
    \o "\n"
    \o "### Retcon Writing\n"
    \o "\n"
    \o "Document features as if they already exist. No future tense.\n"
    \o "\n"
    \o "- Bad: \"This feature will add...\"\n"
    \o "- Good: \"This feature provides...\"\n"
    \o "\n"
    \o "### File Crawling\n"
    \o "\n"
    \o "Process files one at a time to avoid context overflow:\n"
    \o "\n"
    \o "1. Generate index with " \o Backtick \o "[ ]" \o Backtick \o " checkboxes\n"
    \o "2. Process one file per iteration\n"
    \o "3. Mark " \o Backtick \o "[x]" \o Backtick \o " when complete\n"
    \o "\n"
    \o "### Context Poisoning Prevention\n"
    \o "\n"
    \o "Eliminate contradictions:\n"
    \o "\n"
    \o "- One authoritative location per concept\n"
    \o "- Delete duplicates, don't update\n"
    \o "- Resolve conflicts before proceeding\n"
    \o "\n"
    \o "## When to Use DDD\n"
    \o "\n"
    \o "**Use DDD for:**\n"
    \o "- Multi-file changes\n"
    \o "- New features in existing codebases\n"
    \o "- Complex integrations\n"
    \o "\n"
    \o "**Skip DDD for:**\n"
    \o "- Typo fixes\n"
    \o "- Single-file changes\n"
    \o "- Emergency hotfixes\n"
    \o "\n"
    \o "## References\n"
    \o "\n"
    \o "See " \o Backtick \o "@skills/ddd-guide/references/" \o Backtick \o " for detailed documentation:\n"
    \o "\n"
    \o "- " \o Backtick \o "core-concepts/" \o Backtick \o " - Techniques and methodologies\n"
    \o "- " \o Backtick \o "phases/" \o Backtick \o " - Step-by-step phase guides\n"
    \o "- " \o Backtick \o "philosophy/" \o Backtick \o " - Underlying principles\n"
    \o "\n"
    \o "## Remember\n"
    \o "\n"
    \o "**Documentation first.** If it's not documented, it doesn't exist.\n"
    \o "\n"
    \o "**Retcon, don't predict.** Write as if the feature already exists.\n"
    \o "\n"
    \o "**One source of truth.** Delete duplicates, don't update them.\n"

\* contracts merged into module-development/SKILL.md, in this order
CONTRACT_FILES ==
    << "TOOL_CONTRACT.md", "PROVIDER_CONTRACT.md", "HOOK_CONTRACT.md",
       "ORCHESTRATOR_CONTRACT.md", "CONTEXT_CONTRACT.md" >>

\* agent file -> command file, in the dict's insertion order
AGENT_TO_COMMAND ==
    << [agent |-> "planning-architect.md",      command |-> "ddd-1-plan.md"],
       [agent |-> "documentation-retroner.md",  command |-> "ddd-2-docs.md"],
       [agent |-> "code-planner.md",            command |-> "ddd-3-code-plan.md"],
       [agent |-> "implementation-verifier.md", command |-> "ddd-4-code.md"],
       [agent |-> "finalization-specialist.md", command |-> "ddd-5-finish.md"] >>

\* sync_ddd.py: every pattern is a literal (the only metacharacter is the
\* escaped dot) and every replacement is free of group references.
ddd_REFERENCE_PATTERNS ==
    << << "@ddd:context/", "@skills/ddd-guide/references/" >>,
       << "@ddd:", "@skills/ddd-guide/references/" >>,
       << "@foundation:IMPLEMENTATION_PHILOSOPHY.md", "@skills/amplifier-philosophy/SKILL.md" >>,
       << "@foundation:MODULAR_DESIGN_PHILOSOPHY.md", "@skills/amplifier-philosophy/SKILL.md" >>,
       << "@foundation:", "@skills/amplifier-philosophy/" >> >>

\* sync_amplifier_core.py: every pattern has the shape
\*     \[([^\]]+)\]\(  target  \)       or   \[([^\]]+)\]\(  target ([^)]+) \)
\* and every replacement the shape  [\1](url)  or  [\1](url\2).
\* target: the literal the link target starts with; wild: a ([^)]+) group
\* follows the literal; url: the replacement's target; keep: \2 is appended.
core_REFERENCE_PATTERNS ==
    << [target |-> "DESIGN_PHILOSOPHY.md", wild |-> FALSE,
        url |-> "@skills/amplifier-philosophy/SKILL.md", keep |-> FALSE],
       [target |-> "contracts/", wild |-> TRUE,
        url |-> "@skills/module-development/SKILL.md", keep |-> FALSE],
       [target |-> "MODULE_SOURCE_PROTOCOL.md", wild |-> FALSE,
        url |-> "@skills/module-development/SKILL.md", keep |-> FALSE],
       [target |-> "../", wild |-> TRUE,
        url |-> "https://github.com/microsoft/amplifier-core/blob/main/", keep |-> TRUE] >>

----------------------------------------------------------------------------
(* Python string and regular-expression primitives used by the scripts.    *)

CharAt(s, i) == SubSeq(s, i, i)

\* the suffix s[i-1:] of Python, for a 1-based i
From(s, i) == SubSeq(s, i, Len(s))

\* s[i-1:].startswith(p)
MatchAt(s, p, i) ==
    /\ i + Len(p) - 1 <= Len(s)
    /\ SubSeq(s, i, i + Len(p) - 1) = p

\* str.startswith
StartsWith(s, p) == MatchAt(s, p, 1)

\* the least element of a non-empty set of positions, 0 for the empty set
First(S) == IF S = {} THEN 0 ELSE CHOOSE i \in S : \A j \in S : i <= j

\* str.find(p, i-1) + 1: the first position >= i where p occurs, 0 if none
Find(s, p, i) == First({ j \in i..(Len(s) - Len(p) + 1) : MatchAt(s, p, j) })

\* str.split(sep, 2): at most two splits, at the leftmost occurrences
Split2(s, sep) ==
    LET i1 == Find(s, sep, 1)
        i2 == Find(s, sep, i1 + Len(sep))
    IN  IF i1 = 0 THEN << s >>
        ELSE IF i2 = 0
             THEN << SubSeq(s, 1, i1 - 1), From(s, i1 + Len(sep)) >>
             ELSE << SubSeq(s, 1, i1 - 1),
                     SubSeq(s, i1 + Len(sep), i2 - 1),
                     From(s, i2 + Len(sep)) >>

\* the characters str.lstrip() and the regex class \s remove (ASCII part)
Whitespace == { " ", "\t", "\n", "\r", "\f" }

\* the first position >= i that holds no whitespace (Len(s) + 1 if none)
SkipWhitespace(s, i) ==
    First({ j \in i..(Len(s) + 1) : j = Len(s) + 1 \/ CharAt(s, j) \notin Whitespace })

\* str.lstrip()
LStrip(s) == From(s, SkipWhitespace(s, 1))

\* re.sub(p, r, s) for a literal pattern p and a literal replacement r:
\* leftmost non-overlapping occurrences, scanned once from left to right
RECURSIVE SubLiteral(_, _, _)
SubLiteral(p, r, s) ==
    LET i == Find(s, p, 1)
    IN  IF i = 0 THEN s
        ELSE SubSeq(s, 1, i - 1) \o r \o SubLiteral(p, r, From(s, i + Len(p)))

\* The end of the match of a core link pattern that starts at position i,
\* 0 if there is none.  [^\]]+ runs to the first "]" after the "[" and must
\* be non-empty; ([^)]+) runs to the first ")" and must be non-empty.
LinkClose(s, i) == Find(s, "]", i + 1)
LinkTail(s, rule, i) == LinkClose(s, i) + 2 + Len(rule.target)
LinkMatchEnd(s, rule, i) ==
    LET j == LinkClose(s, i)
        k == LinkTail(s, rule, i)
        e == Find(s, ")", k)
    IN  IF \/ CharAt(s, i) # "["
           \/ j < i + 2
           \/ ~ MatchAt(s, "](" \o rule.target, j)
        THEN 0
        ELSE IF rule.wild
             THEN (IF e > k THEN e ELSE 0)
             ELSE (IF e = k THEN e ELSE 0)

\* the replacement template expanded for the match at i
LinkReplacement(s, rule, i) ==
    "[" \o SubSeq(s, i + 1, LinkClose(s, i) - 1) \o "](" \o rule.url
        \o (IF rule.keep
            THEN SubSeq(s, LinkTail(s, rule, i), LinkMatchEnd(s, rule, i) - 1)
            ELSE "")
        \o ")"

\* re.sub(pattern, replacement, s) for a core link pattern, from position i:
\* the leftmost match at or after i is replaced, the scan resumes behind it
RECURSIVE SubLink(_, _, _)
SubLink(rule, s, i) ==
    LET m == First({ j \in i..Len(s) : LinkMatchEnd(s, rule, j) # 0 })
    IN  IF m = 0 THEN From(s, i)
        ELSE SubSeq(s, i, m - 1) \o LinkReplacement(s, rule, m)
                 \o SubLink(rule, s, LinkMatchEnd(s, rule, m) + 1)

\* the last position of the line that holds position i (i - 1 if s[i] is the
\* line's newline, Len(s) on the last line): where a greedy .* stops
EndOfLine(s, i) ==
    LET j == Find(s, "\n", i) IN IF j = 0 THEN Len(s) ELSE j - 1

\* re.sub(r"^name:\s*.*$", "name: " + new, s, flags=re.MULTILINE), from
\* position i.  ^ holds at position 1 and after every newline; \s* is greedy
\* over Whitespace, newlines included; .* then runs to the end of the line on
\* which \s* stopped, where $ holds.
RECURSIVE SubNameField(_, _, _)
SubNameField(new, s, i) ==
    LET m == First({ j \in i..Len(s) : /\ (j = 1 \/ CharAt(s, j - 1) = "\n")
                                       /\ MatchAt(s, "name:", j) })
    IN  IF m = 0 THEN From(s, i)
        ELSE SubSeq(s, i, m - 1) \o "name: " \o new
                 \o SubNameField(new, s, EndOfLine(s, SkipWhitespace(s, m + 5)) + 1)

----------------------------------------------------------------------------
(* The text functions of the two scripts.                                  *)

\* one iteration of the loop of transform_references
ddd_ApplyRule(rule, s) == SubLiteral(rule[1], rule[2], s)
core_ApplyRule(rule, s) == SubLink(rule, s, 1)

\* variant: the rules are applied from the last to the first
RECURSIVE ddd_TransformLoop_Reversed(_, _, _)
ddd_TransformLoop_Reversed(rules, n, s) ==
    IF n = 0 THEN s
    ELSE ddd_TransformLoop_Reversed(rules, n - 1, ddd_ApplyRule(rules[n], s))

\* sync_ddd.transform_references: the loop over the first n rules
RECURSIVE ddd_TransformLoop(_, _, _)
ddd_TransformLoop(rules, n, s) ==
    IF n = 0 THEN s
    ELSE ddd_ApplyRule(rules[n], ddd_TransformLoop(rules, n - 1, s))

ddd_transform_references(s) ==
    ddd_TransformLoop(ddd_REFERENCE_PATTERNS, Len(ddd_REFERENCE_PATTERNS), s)

\* sync_amplifier_core.transform_references
RECURSIVE core_TransformLoop(_, _, _)
core_TransformLoop(rules, n, s) ==
    IF n = 0 THEN s
    ELSE core_ApplyRule(rules[n], core_TransformLoop(rules, n - 1, s))

core_transform_references(s) ==
    core_TransformLoop(core_REFERENCE_PATTERNS, Len(core_REFERENCE_PATTERNS), s)

\* sync_amplifier_core.inject_credit
core_inject_credit(s) == core_CREDIT_COMMENT \o s

\* variant: the body behind the header block keeps its leading white space
ddd_inject_credit_NoStrip(s) ==
    LET parts == Split2(s, "---")
    IN  IF StartsWith(s, "---") /\ Len(parts) >= 3
        THEN "---" \o parts[2] \o "---\n\n" \o ddd_CREDIT_COMMENT \o parts[3]
        ELSE ddd_CREDIT_COMMENT \o s

\* sync_ddd.inject_credit
ddd_inject_credit(s) ==
    LET parts == Split2(s, "---")
    IN  IF StartsWith(s, "---") /\ Len(parts) >= 3
        THEN "---" \o parts[2] \o "---\n\n" \o ddd_CREDIT_COMMENT \o LStrip(parts[3])
        ELSE ddd_CREDIT_COMMENT \o s

\* sync_ddd.update_frontmatter_name
update_frontmatter_name(s, new) ==
    LET parts == Split2(s, "---")
    IN  IF ~ StartsWith(s, "---") THEN s
        ELSE IF Len(parts) < 3 THEN s
        ELSE "---" \o SubNameField(new, parts[2], 1) \o "---" \o parts[3]

----------------------------------------------------------------------------
(* Paths.  Upstream paths are relative to the clone, destination paths to  *)
(* PLUGIN_ROOT (the empty path), which always exists.                      *)

\* Path.__truediv__
Slash(a, b) == IF a = "" THEN b ELSE a \o "/" \o b

\* the position of the last "/" of p, 0 if none
LastSlash(p) ==
    LET S == { i \in 1..Len(p) : CharAt(p, i) = "/" }
    IN  IF S = {} THEN 0 ELSE CHOOSE i \in S : \A j \in S : j <= i

\* Path.parent
Parent(p) ==
    LET i == LastSlash(p) IN IF i = 0 THEN "" ELSE SubSeq(p, 1, i - 1)

\* the directories target_path.parent.mkdir(parents=True, exist_ok=True)
\* makes sure exist: every proper ancestor of p below PLUGIN_ROOT
RECURSIVE Parents(_)
Parents(p) ==
    IF Parent(p) = "" THEN {} ELSE { Parent(p) } \cup Parents(Parent(p))

\* str.endswith
EndsWith(s, p) == Len(s) >= Len(p) /\ From(s, Len(s) - Len(p) + 1) = p

\* the content of file p is c afterwards, every other file is as before
Put(f, p, c) == [q \in (DOMAIN f) \cup { p } |-> IF q = p THEN c ELSE f[q]]

\* "\n".join(sections)
RECURSIVE JoinLines(_)
JoinLines(sections) ==
    IF Len(sections) = 0 THEN ""
    ELSE IF Len(sections) = 1 THEN sections[1]
    ELSE sections[1] \o "\n" \o JoinLines(Tail(sections))

\* upstream paths
DesignPhilosophy == "docs/DESIGN_PHILOSOPHY.md"
ContractsDir == "docs/contracts"
Readme == Slash(ContractsDir, "README.md")
ContractPath(i) == Slash(ContractsDir, CONTRACT_FILES[i])
ModuleSourceProtocol == "docs/MODULE_SOURCE_PROTOCOL.md"
AgentsDir == "agents"
AgentPath(i) == Slash(AgentsDir, AGENT_TO_COMMAND[i].agent)
ContextDir == "context"

\* destination paths
PhilosophyTarget == "skills/amplifier-philosophy/SKILL.md"
ModuleDevTarget == "skills/module-development/SKILL.md"
CommandsDir == "commands"
CommandPath(i) == Slash(CommandsDir, AGENT_TO_COMMAND[i].command)
ReferencesDir == "skills/ddd-guide/references"
SkillPath == "skills/ddd-guide/SKILL.md"

----------------------------------------------------------------------------
(* The writer block every assembler ends with:                             *)
(*     if dry_run: print("[DRY-RUN] Would ...")                            *)
(*     else: mkdir(parents=True, exist_ok=True); write_text; print(...)    *)
(* st is the destination tree and the output of one run.                   *)

Line(kind, path) == [kind |-> kind, path |-> path]

\* variant: the parent directories are made before dry_run is looked at
WriteOrReport_MkdirFirst(dry_run, verb, target_path, c, st) ==
    IF dry_run
    THEN [files |-> st.files,
          dirs  |-> st.dirs \cup Parents(target_path),
          log   |-> Append(st.log, Line("would_" \o verb, target_path))]
    ELSE [files |-> Put(st.files, target_path, c),
          dirs  |-> st.dirs \cup Parents(target_path),
          log   |-> Append(st.log, Line(verb, target_path))]

WriteOrReport(dry_run, verb, target_path, c, st) ==
    IF dry_run
    THEN [st EXCEPT !.log = Append(@, Line("would_" \o verb, target_path))]
    ELSE [files |-> Put(st.files, target_path, c),
          dirs  |-> st.dirs \cup Parents(target_path),
          log   |-> Append(st.log, Line(verb, target_path))]

Warn(path, st) == [st EXCEPT !.log = Append(@, Line("warning", path))]

----------------------------------------------------------------------------
(* sync_amplifier_core.py: the assemblers.                                 *)

\* sync_philosophy: the content assembled from DESIGN_PHILOSOPHY.md
PhilosophyContent ==
    PHILOSOPHY_FRONTMATTER
        \o core_inject_credit(core_transform_references(text[DesignPhilosophy]))

\* variant: an absent contract file still contributes its separator
RECURSIVE ContractSections_EmptyFragment(_)
ContractSections_EmptyFragment(n) ==
    IF n = 0 THEN << core_transform_references(text[Readme]) >>
    ELSE Append(ContractSections_EmptyFragment(n - 1),
                "\n---\n\n" \o (IF ContractPath(n) \in present
                                 THEN core_transform_references(text[ContractPath(n)])
                                 ELSE ""))

\* sync_module_development: sections after README.md and the first n
\* contract files, and the state after their warnings
RECURSIVE ContractSections(_)
ContractSections(n) ==
    IF n = 0 THEN << core_transform_references(text[Readme]) >>
    ELSE IF ContractPath(n) \in present
         THEN Append(ContractSections(n - 1),
                     "\n---\n\n" \o core_transform_references(text[ContractPath(n)]))
         ELSE ContractSections(n - 1)

RECURSIVE ContractWarnings(_, _)
ContractWarnings(n, st) ==
    IF n = 0 THEN st
    ELSE IF ContractPath(n) \in present
         THEN ContractWarnings(n - 1, st)
         ELSE Warn(ContractPath(n), ContractWarnings(n - 1, st))

\* sections once MODULE_SOURCE_PROTOCOL.md (the appendix) is handled
ModuleDevSections ==
    IF ModuleSourceProtocol \in present
    THEN Append(ContractSections(Len(CONTRACT_FILES)),
                "\n---\n\n# Appendix: Module Source Protocol\n\n"
                    \o core_transform_references(text[ModuleSourceProtocol]))
    ELSE ContractSections(Len(CONTRACT_FILES))

ModuleDevWarnings(st) ==
    IF ModuleSourceProtocol \in present
    THEN ContractWarnings(Len(CONTRACT_FILES), st)
    ELSE Warn(ModuleSourceProtocol, ContractWarnings(Len(CONTRACT_FILES), st))

ModuleDevContent ==
    MODULE_DEV_FRONTMATTER \o core_inject_credit(JoinLines(ModuleDevSections))

----------------------------------------------------------------------------
(* sync_ddd.py: the assemblers.                                            *)

\* command_file.replace(".md", "")
CommandName(command_file) == SubLiteral(".md", "", command_file)

\* variant: the name field of the header is left as it is upstream
CommandContent_NameKept(i) ==
    ddd_inject_credit(ddd_transform_references(text[AgentPath(i)]))

\* convert_agents_to_commands: the content written for entry i
CommandContent(i) ==
    update_frontmatter_name(
        ddd_inject_credit(ddd_transform_references(text[AgentPath(i)])),
        CommandName(AGENT_TO_COMMAND[i].command))

\* variant: under dry_run every entry is reported, its source present or not
RECURSIVE AgentsLoop_DryRunUnchecked(_, _, _)
AgentsLoop_DryRunUnchecked(dry_run, n, st) ==
    IF n = 0 THEN st
    ELSE IF dry_run
         THEN WriteOrReport(dry_run, "create", CommandPath(n), "",
                            AgentsLoop_DryRunUnchecked(dry_run, n - 1, st))
    ELSE IF AgentPath(n) \notin present
         THEN Warn(AgentPath(n), AgentsLoop_DryRunUnchecked(dry_run, n - 1, st))
         ELSE WriteOrReport(dry_run, "create", CommandPath(n), CommandContent(n),
                            AgentsLoop_DryRunUnchecked(dry_run, n - 1, st))

\* convert_agents_to_commands: the loop over the first n entries
RECURSIVE AgentsLoop(_, _, _)
AgentsLoop(dry_run, n, st) ==
    IF n = 0 THEN st
    ELSE IF AgentPath(n) \notin present
         THEN Warn(AgentPath(n), AgentsLoop(dry_run, n - 1, st))
         ELSE WriteOrReport(dry_run, "create", CommandPath(n), CommandContent(n),
                            AgentsLoop(dry_run, n - 1, st))

\* copy_context_to_skills: the content written for md_file
ReferenceContent(md_file) ==
    ddd_inject_credit(ddd_transform_references(text[Slash(ContextDir, md_file)]))

\* copy_context_to_skills: the loop over the first n files rglob yields
RECURSIVE ContextLoop(_, _, _)
ContextLoop(dry_run, n, st) ==
    IF n = 0 THEN st
    ELSE WriteOrReport(dry_run, "create", Slash(ReferencesDir, rglob_order[n]),
                       ReferenceContent(rglob_order[n]),
                       ContextLoop(dry_run, n - 1, st))

----------------------------------------------------------------------------
(* The environment of a run: the upstream repository and the destination   *)
(* tree before the run.                                                    *)

\* bounds of the model
MaxContextFiles == 3   \* files below context/ that may exist upstream
MaxRotation == 0       \* assignments of sample texts to upstream files
MaxHeaderLines == 2    \* lines of a generated header block
MaxRefPieces == 3      \* pieces of a generated text with references

Pipelines == { "core", "ddd" }

\* files that may exist below context/ (rglob("*.md") skips the last one)
ContextUniverse ==
    << "phases/planning.md", "overview.md", "phases/notes.txt", "philosophy/principles.md",
       "core-concepts/retcon.md" >>
ContextFiles ==
    { ContextUniverse[i] : i \in 1..(IF MaxContextFiles < Len(ContextUniverse)
                                     THEN MaxContextFiles ELSE Len(ContextUniverse)) }

CoreFiles ==
    { DesignPhilosophy, Readme, ModuleSourceProtocol }
        \cup { ContractPath(i) : i \in 1..Len(CONTRACT_FILES) }
DddFiles ==
    { AgentPath(i) : i \in 1..Len(AGENT_TO_COMMAND) }
        \cup { Slash(ContextDir, f) : f \in ContextFiles }
UpstreamFiles(pl) == IF pl = "core" THEN CoreFiles ELSE DddFiles
UpstreamDirs(pl) == IF pl = "core" THEN { ContractsDir } ELSE { AgentsDir, ContextDir }

\* a clone holds a file only together with the directory the script looks
\* the file up in
Upstreams(pl) ==
    { S \in SUBSET (UpstreamFiles(pl) \cup UpstreamDirs(pl)) :
        \A d \in UpstreamDirs(pl) :
            (\E f \in S : StartsWith(f, d \o "/")) => d \in S }

\* sample texts of upstream files
CoreSamples ==
    << "See [d](DESIGN_PHILOSOPHY.md), [t](contracts/T.md), [u](../R.md).\n",
       "---\nname: up\n---\n[p](MODULE_SOURCE_PROTOCOL.md)\n",
       "Plain [o](OTHER.md)",
       "" >>
DddSamples ==
    << "---\nname: planner\ndescription: P\n---\n\nRead @ddd:context/a.md\n",
       "---\nname:\ndescription: E\n---\nBody\n",
       "# Title\n@foundation:IMPLEMENTATION_PHILOSOPHY.md @foundation:o.md\n",
       "---\ndescription: N\n---\n  \n@ddd:agents/p.md\n",
       "---\nname: unclosed\n" >>

\* position of file f in a fixed enumeration of the upstream files
FileIndex(f) ==
    IF f = DesignPhilosophy THEN 1
    ELSE IF f = Readme THEN 2
    ELSE IF f = ModuleSourceProtocol THEN 3
    ELSE IF \E i \in 1..Len(CONTRACT_FILES) : f = ContractPath(i)
         THEN 3 + (CHOOSE i \in 1..Len(CONTRACT_FILES) : f = ContractPath(i))
    ELSE IF \E i \in 1..Len(AGENT_TO_COMMAND) : f = AgentPath(i)
         THEN CHOOSE i \in 1..Len(AGENT_TO_COMMAND) : f = AgentPath(i)
    ELSE 5 + (CHOOSE i \in 1..Len(ContextUniverse) : f = Slash(ContextDir, ContextUniverse[i]))

\* the text of file f under rotation r: a marker line naming the file is
\* appended, so that no two fragments are equal
SampleText(pl, f, r) ==
    LET samples == IF pl = "core" THEN CoreSamples ELSE DddSamples
    IN  samples[((FileIndex(f) - 1 + r) % Len(samples)) + 1] \o "<" \o f \o ">\n"

\* the orders in which a directory scan may yield the files of S
Orders(S) ==
    { o \in [1..Cardinality(S) -> S] : \A i, j \in DOMAIN o : o[i] = o[j] => i = j }

\* what context_dir.rglob("*.md") matches
MarkdownFiles(S) ==
    { f \in ContextFiles : Slash(ContextDir, f) \in S /\ EndsWith(f, ".md") }

\* destination trees before the run
OldText == "old content\n"
Unrelated == { "README.md", "commands/custom.md" }
Targets(pl) ==
    IF pl = "core" THEN { PhilosophyTarget, ModuleDevTarget }
    ELSE { CommandPath(i) : i \in 1..Len(AGENT_TO_COMMAND) }
             \cup { Slash(ReferencesDir, f) : f \in ContextFiles }
             \cup { SkillPath }
InitialFileSets(pl) == { {}, Unrelated \cup Targets(pl) }

AllParents(S) == UNION { Parents(p) : p \in S }

Runs == BOOLEAN   \* a run is identified by its --dry-run flag
Dry == TRUE       \* the run with --dry-run
Apply == FALSE    \* the run without

----------------------------------------------------------------------------
(* main(): one run per value of --dry-run, both over the same upstream     *)
(* repository and each over its own copy of the same destination tree.     *)

TextIdle ==
    /\ content = ""
    /\ new_name = ""
    /\ fn = ""
    /\ result = ""

Init ==
    /\ pipeline \in Pipelines
    /\ reachable \in BOOLEAN
    /\ present \in (IF reachable THEN Upstreams(pipeline) ELSE { {} })
    /\ \E r \in 0..MaxRotation :
           text = [f \in present \cap UpstreamFiles(pipeline) |-> SampleText(pipeline, f, r)]
    /\ rglob_order \in Orders(MarkdownFiles(present))
    /\ \E S \in InitialFileSets(pipeline) :
           /\ tree0 = [p \in S |-> OldText]
           /\ dirs0 = AllParents(S)
    /\ pc = [r \in Runs |-> "start"]
    /\ files = [r \in Runs |-> tree0]
    /\ dirs = [r \in Runs |-> dirs0]
    /\ log = [r \in Runs |-> << >>]
    /\ tmp_dir = [r \in Runs |-> FALSE]
    /\ raised = [r \in Runs |-> ""]
    /\ status = [r \in Runs |-> -1]
    /\ TextIdle

FirstStep(pl) == IF pl = "core" THEN "philosophy" ELSE "agents"

Cur(r) == [files |-> files[r], dirs |-> dirs[r], log |-> log[r]]

\* the step returns: its writes and output take effect, main() goes on
Return(r, st, next) ==
    /\ files' = [files EXCEPT ![r] = st.files]
    /\ dirs' = [dirs EXCEPT ![r] = st.dirs]
    /\ log' = [log EXCEPT ![r] = st.log]
    /\ pc' = [pc EXCEPT ![r] = next]
    /\ UNCHANGED << tmp_dir, raised, status >>

\* variant: the exception of convert_agents_to_commands is swallowed and
\* main() goes on with the next step
Raise_Swallowed(r, step) ==
    /\ raised' = [raised EXCEPT ![r] = step]
    /\ pc' = [pc EXCEPT ![r] = IF step = "agents" THEN "context" ELSE "exit_with"]
    /\ UNCHANGED << files, dirs, log, tmp_dir, status >>

\* the step raises: the exception leaves the with block of main()
Raise(r, step) ==
    /\ raised' = [raised EXCEPT ![r] = step]
    /\ pc' = [pc EXCEPT ![r] = "exit_with"]
    /\ UNCHANGED << files, dirs, log, tmp_dir, status >>

\* with tempfile.TemporaryDirectory() as tmp_dir:
EnterWith(dry_run) ==
    /\ pc[dry_run] = "start"
    /\ tmp_dir' = [tmp_dir EXCEPT ![dry_run] = TRUE]
    /\ pc' = [pc EXCEPT ![dry_run] = "clone"]
    /\ UNCHANGED << files, dirs, log, raised, status >>
    /\ UNCHANGED << envvars, textvars >>

\* subprocess.run(["git", "clone", ...], check=True)
clone_upstream(dry_run) ==
    /\ pc[dry_run] = "clone"
    /\ IF reachable
       THEN Return(dry_run, Cur(dry_run), FirstStep(pipeline))
       ELSE Raise(dry_run, "clone")
    /\ UNCHANGED << envvars, textvars >>

sync_philosophy(dry_run) ==
    /\ pc[dry_run] = "philosophy"
    /\ IF DesignPhilosophy \notin present
       THEN Raise(dry_run, "philosophy")
       ELSE Return(dry_run,
                   WriteOrReport(dry_run, "update", PhilosophyTarget,
                                 PhilosophyContent, Cur(dry_run)),
                   "module_development")
    /\ UNCHANGED << envvars, textvars >>

\* variant: README.md is treated like the optional files
sync_module_development_ReadmeOptional(dry_run) ==
    /\ pc[dry_run] = "module_development"
    /\ IF ContractsDir \notin present
       THEN Raise(dry_run, "module_development")
       ELSE IF Readme \notin present
       THEN Return(dry_run,
                   WriteOrReport(dry_run, "update", ModuleDevTarget,
                                 MODULE_DEV_FRONTMATTER \o core_inject_credit(""),
                                 Warn(Readme, Cur(dry_run))),
                   "exit_with")
       ELSE Return(dry_run,
                   WriteOrReport(dry_run, "update", ModuleDevTarget,
                                 ModuleDevContent, ModuleDevWarnings(Cur(dry_run))),
                   "exit_with")
    /\ UNCHANGED << envvars, textvars >>

sync_module_development(dry_run) ==
    /\ pc[dry_run] = "module_development"
    /\ IF ContractsDir \notin present
       THEN Raise(dry_run, "module_development")
       ELSE IF Readme \notin present
       THEN Raise(dry_run, "module_development")
       ELSE Return(dry_run,
                   WriteOrReport(dry_run, "update", ModuleDevTarget,
                                 ModuleDevContent, ModuleDevWarnings(Cur(dry_run))),
                   "exit_with")
    /\ UNCHANGED << envvars, textvars >>

convert_agents_to_commands(dry_run) ==
    /\ pc[dry_run] = "agents"
    /\ IF AgentsDir \notin present
       THEN Raise(dry_run, "agents")
       ELSE Return(dry_run,
                   AgentsLoop(dry_run, Len(AGENT_TO_COMMAND), Cur(dry_run)),
                   "context")
    /\ UNCHANGED << envvars, textvars >>

copy_context_to_skills(dry_run) ==
    /\ pc[dry_run] = "context"
    /\ IF ContextDir \notin present
       THEN Raise(dry_run, "context")
       ELSE Return(dry_run,
                   ContextLoop(dry_run, Len(rglob_order), Cur(dry_run)),
                   "skill_md")
    /\ UNCHANGED << envvars, textvars >>

generate_skill_md(dry_run) ==
    /\ pc[dry_run] = "skill_md"
    /\ Return(dry_run,
              WriteOrReport(dry_run, "create", SkillPath, SKILL_MD_TEMPLATE,
                            Cur(dry_run)),
              "exit_with")
    /\ UNCHANGED << envvars, textvars >>

\* variant: the directory is removed by a statement after the steps, which
\* an exception skips
ExitWith_CleanupOnSuccessOnly(dry_run) ==
    /\ pc[dry_run] = "exit_with"
    /\ tmp_dir' = [tmp_dir EXCEPT ![dry_run] = raised[dry_run] # ""]
    /\ status' = [status EXCEPT ![dry_run] = IF raised[dry_run] = "" THEN 0 ELSE 1]
    /\ pc' = [pc EXCEPT ![dry_run] = "done"]
    /\ UNCHANGED << files, dirs, log, raised >>
    /\ UNCHANGED << envvars, textvars >>

\* TemporaryDirectory.__exit__: the directory is removed; main() prints the
\* summary and returns, or the exception ends the process
ExitWith(dry_run) ==
    /\ pc[dry_run] = "exit_with"
    /\ tmp_dir' = [tmp_dir EXCEPT ![dry_run] = FALSE]
    /\ status' = [status EXCEPT ![dry_run] = IF raised[dry_run] = "" THEN 0 ELSE 1]
    /\ pc' = [pc EXCEPT ![dry_run] = "done"]
    /\ UNCHANGED << files, dirs, log, raised >>
    /\ UNCHANGED << envvars, textvars >>

\* how far main() has come
Position(p) ==
    IF p = "start" THEN 0
    ELSE IF p = "clone" THEN 1
    ELSE IF p \in { "philosophy", "agents" } THEN 2
    ELSE IF p \in { "module_development", "context" } THEN 3
    ELSE IF p = "skill_md" THEN 4
    ELSE IF p = "exit_with" THEN 5
    ELSE 6

\* The two runs are separate processes that share no state, so the order in
\* which their steps are taken changes nothing for either.  They are advanced
\* in turn: the dry run when it is not ahead, the apply run when it is
\* behind, and either one alone once the other has ended.
Turn(dry_run) ==
    IF dry_run
    THEN Position(pc[Dry]) <= Position(pc[Apply]) \/ pc[Apply] = "done"
    ELSE Position(pc[Apply]) < Position(pc[Dry]) \/ pc[Dry] = "done"

Next ==
    \E dry_run \in Runs :
        /\ Turn(dry_run)
        /\ \/ EnterWith(dry_run)
           \/ clone_upstream(dry_run)
           \/ sync_philosophy(dry_run)
           \/ sync_module_development(dry_run)
           \/ convert_agents_to_commands(dry_run)
           \/ copy_context_to_skills(dry_run)
           \/ generate_skill_md(dry_run)
           \/ ExitWith(dry_run)

Spec == Init /\ [][Next]_vars

----------------------------------------------------------------------------
(* The text functions on their own: a text is drawn, one function is       *)
(* applied to it.                                                          *)

\* every concatenation of at most n pieces
RECURSIVE Concats(_, _)
Concats(pieces, n) ==
    IF n = 0 THEN { "" }
    ELSE Concats(pieces, n - 1)
             \cup { a \o p : a \in Concats(pieces, n - 1), p \in pieces }

\* texts with and without a header block: opening, header lines, closing, body
HeaderLines ==
    { "name: old\n", "name:\n", "name: \t\n", "description: d\n", "  name: nested\n" }
Openings == { "", "---\n", "---", "\n---\n" }
Closings == { "", "---\n", "---" }
Bodies == { "", "Body\n", "\n \tBody\n", "a---b\n" }
HeaderTexts ==
    { o \o h \o c \o b : o \in Openings, h \in Concats(HeaderLines, MaxHeaderLines),
                          c \in Closings, b \in Bodies }

\* texts with references
RefPieces ==
    { "@ddd:", "context/", "@foundation:", "IMPLEMENTATION_PHILOSOPHY.md",
      "MODULAR_DESIGN_PHILOSOPHY.md", "[a](", "DESIGN_PHILOSOPHY.md", "contracts/",
      "../", "MODULE_SOURCE_PROTOCOL.md", "P.md)", ")" }
RefTexts == Concats(RefPieces, MaxRefPieces)

Contents == HeaderTexts \cup RefTexts
NewNames == { CommandName(AGENT_TO_COMMAND[1].command), "x" }

RunIdle ==
    /\ pipeline = "none"
    /\ reachable = FALSE
    /\ present = {}
    /\ text = << >>
    /\ rglob_order = << >>
    /\ tree0 = << >>
    /\ dirs0 = {}
    /\ pc = [r \in Runs |-> "done"]
    /\ files = [r \in Runs |-> << >>]
    /\ dirs = [r \in Runs |-> {}]
    /\ log = [r \in Runs |-> << >>]
    /\ tmp_dir = [r \in Runs |-> FALSE]
    /\ raised = [r \in Runs |-> ""]
    /\ status = [r \in Runs |-> 0]

TextInit ==
    /\ RunIdle
    /\ content \in Contents
    /\ new_name = ""
    /\ fn = ""
    /\ result = ""

Call(name, value) ==
    /\ fn = ""
    /\ fn' = name
    /\ result' = value
    /\ UNCHANGED << content, envvars, runvars >>

CallCoreTransformReferences ==
    /\ Call("core_transform_references", core_transform_references(content))
    /\ UNCHANGED new_name

CallDddTransformReferences ==
    /\ Call("ddd_transform_references", ddd_transform_references(content))
    /\ UNCHANGED new_name

CallCoreInjectCredit ==
    /\ Call("core_inject_credit", core_inject_credit(content))
    /\ UNCHANGED new_name

CallDddInjectCredit ==
    /\ Call("ddd_inject_credit", ddd_inject_credit(content))
    /\ UNCHANGED new_name

CallUpdateFrontmatterName ==
    \E n \in NewNames :
        /\ Call("update_frontmatter_name", update_frontmatter_name(content, n))
        /\ new_name' = n

TextNext ==
    \/ CallCoreTransformReferences
    \/ CallDddTransformReferences
    \/ CallCoreInjectCredit
    \/ CallDddInjectCredit
    \/ CallUpdateFrontmatterName

TextSpec == TextInit /\ [][TextNext]_vars

----------------------------------------------------------------------------
(* Vocabulary of the properties.                                           *)

\* file p of run r is as it was before the run: absent, or with its content
Same(r, p) ==
    /\ (p \in DOMAIN files[r]) = (p \in DOMAIN tree0)
    /\ p \in DOMAIN tree0 => files[r][p] = tree0[p]

\* a line of output without the distinction "would do" / "did"
Normal(l) ==
    [kind |-> IF l.kind \in { "would_update", "update" } THEN "update"
              ELSE IF l.kind \in { "would_create", "create" } THEN "create"
              ELSE l.kind,
     path |-> l.path]
Report(r) == [i \in DOMAIN log[r] |-> Normal(log[r][i])]

IsPrefix(a, b) == Len(a) <= Len(b) /\ SubSeq(b, 1, Len(a)) = a

\* the lines of kind k of run r, and the number of them about path p
Lines(r, k) == SelectSeq(log[r], LAMBDA l : l.kind = k)
Count(r, k, p) == Cardinality({ i \in DOMAIN log[r] : log[r][i] = Line(k, p) })

\* the steps of a pipeline in the order main() calls them
Steps(pl) ==
    IF pl = "core" THEN << "philosophy", "module_development" >>
    ELSE << "agents", "context", "skill_md" >>
StepIndex(pl, step) ==
    IF \E i \in DOMAIN Steps(pl) : Steps(pl)[i] = step
    THEN CHOOSE i \in DOMAIN Steps(pl) : Steps(pl)[i] = step
    ELSE 0

\* the destinations of step k, and the step a line of output belongs to
StepTargets(pl, k) ==
    IF pl = "core"
    THEN (IF k = 1 THEN { PhilosophyTarget } ELSE { ModuleDevTarget })
    ELSE IF k = 1 THEN { CommandPath(i) : i \in 1..Len(AGENT_TO_COMMAND) }
    ELSE IF k = 2 THEN { Slash(ReferencesDir, f) : f \in ContextFiles }
    ELSE { SkillPath }
StepOfLine(pl, l) ==
    IF pl = "core"
    THEN (IF l.path = PhilosophyTarget THEN 1 ELSE 2)
    ELSE IF StartsWith(l.path, CommandsDir \o "/") \/ StartsWith(l.path, AgentsDir \o "/") THEN 1
    ELSE IF StartsWith(l.path, ReferencesDir \o "/") THEN 2
    ELSE 3

\* the content the assembler of destination p writes
Assembled(p) ==
    IF p = PhilosophyTarget THEN PhilosophyContent
    ELSE IF p = ModuleDevTarget THEN ModuleDevContent
    ELSE IF p = SkillPath THEN SKILL_MD_TEMPLATE
    ELSE IF \E i \in 1..Len(AGENT_TO_COMMAND) : p = CommandPath(i)
         THEN CommandContent(CHOOSE i \in 1..Len(AGENT_TO_COMMAND) : p = CommandPath(i))
    ELSE ReferenceContent(CHOOSE f \in ContextFiles : p = Slash(ReferencesDir, f))

\* a text that starts with a three-dash header block, the block with its two
\* delimiters, what lies between the delimiters, and the body behind it
HasHeaderBlock(c) == StartsWith(c, "---") /\ Find(c, "---", 4) # 0
HeaderInner(c) == SubSeq(c, 4, Find(c, "---", 4) - 1)
HeaderBlock(c) == SubSeq(c, 1, Find(c, "---", 4) + 2)
BodyOf(c) == From(c, Find(c, "---", 4) + 3)

\* the lines of h that start with "name:"
LineStarts(h) == { j \in 1..Len(h) : j = 1 \/ CharAt(h, j - 1) = "\n" }
NameLines(h) ==
    { SubSeq(h, j, EndOfLine(h, j)) : j \in { k \in LineStarts(h) : MatchAt(h, "name:", k) } }

\* Path.stem of a file name: the name without its last suffix
Stem(name) ==
    LET dots == { i \in 2..Len(name) : CharAt(name, i) = "." }
    IN  IF dots = {} THEN name
        ELSE SubSeq(name, 1, (CHOOSE i \in dots : \A j \in dots : j <= i) - 1)

----------------------------------------------------------------------------
(* Properties of the pipelines, checked under Spec.                        *)

\* C1: a run with --dry-run leaves the destination tree unchanged, at every
\* point of the run and however it ends: the files under PLUGIN_ROOT, their
\* contents and the directories are those of before the run.
C1_DryRunLeavesTreeUnchanged ==
    /\ files[Dry] = tree0
    /\ dirs[Dry] = dirs0

\* the dry run went through every step of the ddd pipeline and reported
\* destinations, on a tree that did not hold them
C1_Witness ==
    /\ pipeline = "ddd"
    /\ pc[Dry] = "done"
    /\ status[Dry] = 0
    /\ tree0 = << >>
    /\ \E i \in DOMAIN log[Dry] : log[Dry][i] = Line("would_create", CommandPath(1))
    /\ \E i \in DOMAIN log[Dry] : log[Dry][i] = Line("would_create", SkillPath)
    /\ \E i \in DOMAIN log[Dry] : StartsWith(log[Dry][i].path, ReferencesDir)

\* C2: over the same upstream clone the dry run and the apply run agree step
\* by step: the dry run only reports, the apply run writes what it prints,
\* the output of one is at every moment a prefix of the output of the other
\* once "would write" is read as "wrote", and when both are at the same point
\* of main() they have printed the same paths and warnings and ended, if they
\* have ended, in the same way.
C2_DryRunAgreesWithApply ==
    /\ \A i \in DOMAIN log[Dry] :
           log[Dry][i].kind \in { "would_update", "would_create", "warning" }
    /\ \A i \in DOMAIN log[Apply] :
           /\ log[Apply][i].kind \in { "update", "create", "warning" }
           /\ log[Apply][i].kind # "warning" => log[Apply][i].path \in DOMAIN files[Apply]
    /\ IsPrefix(Report(Dry), Report(Apply)) \/ IsPrefix(Report(Apply), Report(Dry))
    /\ pc[Dry] = pc[Apply] =>
           /\ Report(Dry) = Report(Apply)
           /\ raised[Dry] = raised[Apply]
           /\ status[Dry] = status[Apply]

\* both runs of the ddd pipeline ended, after warnings and writes
C2_Witness ==
    /\ pipeline = "ddd"
    /\ pc[Dry] = "done" /\ pc[Apply] = "done"
    /\ Len(Lines(Apply, "warning")) > 0
    /\ Len(Lines(Apply, "create")) > 1
    /\ Len(Lines(Dry, "would_create")) > 1

\* C4: when DESIGN_PHILOSOPHY.md is absent, sync_philosophy's destination is
\* never created or modified and the run ends with exit status 1; when the
\* contracts directory or its README.md is absent, the same holds of
\* sync_module_development's destination.  In apply mode and in dry-run.
C4_MissingMandatorySource ==
    \A r \in Runs :
        (pipeline = "core" /\ reachable) =>
            /\ DesignPhilosophy \notin present =>
                   /\ Same(r, PhilosophyTarget)
                   /\ pc[r] = "done" => status[r] = 1 /\ raised[r] = "philosophy"
            /\ (ContractsDir \notin present \/ Readme \notin present) =>
                   /\ Same(r, ModuleDevTarget)
                   /\ pc[r] = "done" => status[r] = 1
                   /\ (pc[r] = "done" /\ DesignPhilosophy \in present) =>
                          raised[r] = "module_development"

\* the apply run wrote the philosophy skill and then aborted in
\* sync_module_development because README.md is missing from contracts/
C4_Witness ==
    /\ pipeline = "core"
    /\ pc[Apply] = "done"
    /\ ContractsDir \in present
    /\ Readme \notin present
    /\ \E i \in 1..Len(CONTRACT_FILES) : ContractPath(i) \in present
    /\ raised[Apply] = "module_development"
    /\ tree0 # << >>
    /\ files[Apply][PhilosophyTarget] # OldText

\* the secondary files of the merge in the declared order, each with the
\* text that introduces its fragment
Secondary ==
    [i \in 1..(Len(CONTRACT_FILES) + 1) |->
        IF i <= Len(CONTRACT_FILES)
        THEN [path |-> ContractPath(i), intro |-> "\n---\n\n"]
        ELSE [path |-> ModuleSourceProtocol,
              intro |-> "\n---\n\n# Appendix: Module Source Protocol\n\n"]]

\* the fragments of the secondary files from the i-th on that exist, each
\* preceded by the separator
RECURSIVE SecondaryFragments(_)
SecondaryFragments(i) ==
    IF i > Len(Secondary) THEN ""
    ELSE (IF Secondary[i].path \in present
          THEN "\n" \o Secondary[i].intro
                   \o core_transform_references(text[Secondary[i].path])
          ELSE "")
             \o SecondaryFragments(i + 1)

AbsentSecondary ==
    SelectSeq([i \in DOMAIN Secondary |-> Secondary[i].path], LAMBDA q : q \notin present)

\* C5: whatever subset of the five contract files and MODULE_SOURCE_PROTOCOL.md
\* is absent while README.md is present, once sync_module_development has run
\* the assembled output is the frontmatter, the banner, the README fragment
\* and the fragments of the present secondary files in the declared order,
\* each behind the separator (the protocol's under its appendix heading); the
\* warnings are those of the absent files, one each, in that order; the
\* destination holds the output in apply mode and is reported in dry-run;
\* the run ends with exit status 0.
C5_MissingOptionalFragments ==
    \A r \in Runs :
        ( /\ pipeline = "core"
          /\ Readme \in present
          /\ pc[r] \in { "exit_with", "done" }
          /\ raised[r] = "" ) =>
            /\ ModuleDevContent =
                   MODULE_DEV_FRONTMATTER \o core_CREDIT_COMMENT
                       \o core_transform_references(text[Readme])
                       \o SecondaryFragments(1)
            /\ Lines(r, "warning") =
                   [i \in DOMAIN AbsentSecondary |-> Line("warning", AbsentSecondary[i])]
            /\ log[r][Len(log[r])] =
                   Line(IF r = Dry THEN "would_update" ELSE "update", ModuleDevTarget)
            /\ r = Apply => /\ ModuleDevTarget \in DOMAIN files[r]
                            /\ files[r][ModuleDevTarget] = ModuleDevContent
            /\ pc[r] = "done" => status[r] = 0

\* the apply run merged README.md with some contract files while others and
\* the protocol were absent, and ended
C5_Witness ==
    /\ pipeline = "core"
    /\ pc[Apply] = "done"
    /\ status[Apply] = 0
    /\ ContractPath(1) \notin present
    /\ ContractPath(2) \in present
    /\ ContractPath(4) \notin present
    /\ ContractPath(5) \in present
    /\ ModuleSourceProtocol \notin present
    /\ Len(Lines(Apply, "warning")) = Len(AbsentSecondary)

\* what the batch rename has done in the apply run, entry by entry
BatchRenameDone ==
    /\ \A i \in 1..Len(AGENT_TO_COMMAND) :
           IF AgentPath(i) \in present
           THEN /\ Count(Apply, "create", CommandPath(i)) = 1
                /\ Count(Apply, "warning", AgentPath(i)) = 0
                /\ CommandPath(i) \in DOMAIN files[Apply]
                /\ LET out == files[Apply][CommandPath(i)]
                       src == text[AgentPath(i)]
                   IN  /\ HasHeaderBlock(out) = HasHeaderBlock(src)
                       /\ HasHeaderBlock(out) =>
                              /\ NameLines(HeaderInner(out))
                                     \subseteq { "name: " \o Stem(AGENT_TO_COMMAND[i].command) }
                              /\ NameLines(HeaderInner(src)) # {} =>
                                     NameLines(HeaderInner(out)) # {}
           ELSE /\ Count(Apply, "create", CommandPath(i)) = 0
                /\ Count(Apply, "warning", AgentPath(i)) = 1
                /\ Same(Apply, CommandPath(i))
    /\ pc[Apply] = "context" =>
           \A p \in (DOMAIN files[Apply]) \cup (DOMAIN tree0) :
               p \notin StepTargets("ddd", 1) => Same(Apply, p)

\* convert_agents_to_commands has been called in the apply run
BatchRenameCalled ==
    /\ pipeline = "ddd"
    /\ reachable
    /\ pc[Apply] \notin { "start", "clone", "agents" }

\* C6 as stated: in apply mode, for every entry of the mapping table the
\* destination is created iff the source exists upstream, a created file with
\* a header block has its name field set to the destination's stem, an entry
\* whose source is absent gives exactly one warning, creates nothing and does
\* not fail the run, and nothing else is created by the step.
C6_Original ==
    BatchRenameCalled => BatchRenameDone /\ raised[Apply] # "agents"

\* C6 amended: the above holds when the agents directory exists upstream;
\* when it does not, the step raises: no warning, no file, exit status 1.
C6_BatchRename ==
    BatchRenameCalled =>
        IF AgentsDir \in present
        THEN BatchRenameDone /\ raised[Apply] # "agents"
        ELSE /\ raised[Apply] = "agents"
             /\ log[Apply] = << >>
             /\ files[Apply] = tree0
             /\ pc[Apply] = "done" => status[Apply] = 1

\* the apply run renamed some agents, one of them with a header block whose
\* name field it rewrote, and warned about a missing one
C6_Witness ==
    /\ BatchRenameCalled
    /\ AgentPath(1) \in present
    /\ AgentPath(2) \notin present
    /\ HasHeaderBlock(text[AgentPath(1)])
    /\ NameLines(HeaderInner(text[AgentPath(1)])) # {}
    /\ NameLines(HeaderInner(files[Apply][CommandPath(1)])) = { "name: ddd-1-plan" }
    /\ Count(Apply, "warning", AgentPath(2)) = 1

\* the step whose exception ended run r (0: none, or the clone)
RaisedIndex(r) == StepIndex(pipeline, raised[r])

\* C7: the steps run in the declared order; once step k has raised, no later
\* step is attempted, no destination of a later step is written, the run ends
\* with exit status 1, and every destination written before keeps the
\* content its step wrote.
C7_AbortSemantics ==
    \A r \in Runs :
        /\ \A i, j \in DOMAIN log[r] :
               i < j => StepOfLine(pipeline, log[r][i]) <= StepOfLine(pipeline, log[r][j])
        /\ \A i \in DOMAIN log[r] :
               /\ pc[r] \notin { "exit_with", "done" } =>
                      StepOfLine(pipeline, log[r][i]) <= StepIndex(pipeline, pc[r])
               /\ log[r][i].kind \in { "update", "create" } =>
                      /\ log[r][i].path \in DOMAIN files[r]
                      /\ files[r][log[r][i].path] = Assembled(log[r][i].path)
        /\ raised[r] # "" =>
               /\ pc[r] \in { "exit_with", "done" }
               /\ pc[r] = "done" => status[r] = 1
               /\ \A i \in DOMAIN log[r] : StepOfLine(pipeline, log[r][i]) < RaisedIndex(r)
               /\ \A k \in DOMAIN Steps(pipeline) :
                      k >= RaisedIndex(r) =>
                          \A p \in StepTargets(pipeline, k) : Same(r, p)

\* the apply run of the ddd pipeline created commands, then aborted in
\* copy_context_to_skills, on a tree that held older files
C7_Witness ==
    /\ pipeline = "ddd"
    /\ pc[Apply] = "done"
    /\ raised[Apply] = "context"
    /\ status[Apply] = 1
    /\ tree0 # << >>
    /\ Len(Lines(Apply, "create")) > 1
    /\ files[Apply][SkillPath] = OldText

\* C8: the temporary directory exists from the clone through every assembler
\* step, and no longer exists once main() has returned or aborted.
C8_TemporaryDirectoryReleased ==
    \A r \in Runs :
        /\ pc[r] \in { "clone", "exit_with" } \cup { Steps(pipeline)[k] : k \in DOMAIN Steps(pipeline) }
               => tmp_dir[r]
        /\ pc[r] \in { "start", "done" } => ~ tmp_dir[r]

\* one run ended by a failed clone or a missing source, the other on success
\* or on the same failure, both without the directory
C8_Witness ==
    /\ pc[Dry] = "done"
    /\ pc[Apply] = "done"
    /\ raised[Apply] \in { "context", "module_development" }
    /\ status[Apply] = 1
    /\ ~ tmp_dir[Apply]
    /\ ~ tmp_dir[Dry]

----------------------------------------------------------------------------
(* Properties of the text functions, checked under TextSpec.               *)

\* the banner of the script that defines the function applied
Banner == IF fn = "core_inject_credit" THEN core_CREDIT_COMMENT ELSE ddd_CREDIT_COMMENT

\* the output is the header block of the input at the very first bytes, then
\* (after white space at most) the banner, then the body of the input (up to
\* white space at its start)
BannerAfterHeader ==
    LET h == HeaderBlock(content)
        b == SkipWhitespace(result, Len(h) + 1)
    IN  /\ StartsWith(result, h)
        /\ MatchAt(result, Banner, b)
        /\ LStrip(From(result, b + Len(Banner))) = LStrip(BodyOf(content))

ContextRule == ddd_REFERENCE_PATTERNS[1]
DddRule == ddd_REFERENCE_PATTERNS[2]
ImplementationRule == ddd_REFERENCE_PATTERNS[3]
ModularRule == ddd_REFERENCE_PATTERNS[4]
FoundationRule == ddd_REFERENCE_PATTERNS[5]

\* C9: transform_references is the left-to-right fold of the rule list: rule
\* i acts on the whole output of rule i-1.  With the rules of sync_ddd.py the
\* order shows: "@ddd:context/P" becomes "@skills/ddd-guide/references/P" and
\* "@foundation:IMPLEMENTATION_PHILOSOPHY.md" becomes
\* "@skills/amplifier-philosophy/SKILL.md", which is not what comes out when
\* the general "@ddd:" or "@foundation:" rule is applied first.
C9_RulesFoldInOrder ==
    /\ fn = "ddd_transform_references" =>
           /\ result =
                  ddd_ApplyRule(FoundationRule,
                    ddd_ApplyRule(ModularRule,
                      ddd_ApplyRule(ImplementationRule,
                        ddd_ApplyRule(DddRule,
                          ddd_ApplyRule(ContextRule, content)))))
           /\ content = "@ddd:context/P.md)" =>
                  /\ result = "@skills/ddd-guide/references/P.md)"
                  /\ result # ddd_ApplyRule(ContextRule, ddd_ApplyRule(DddRule, content))
           /\ content = "@foundation:IMPLEMENTATION_PHILOSOPHY.md" =>
                  /\ result = "@skills/amplifier-philosophy/SKILL.md"
                  /\ result # ddd_ApplyRule(ImplementationRule,
                                            ddd_ApplyRule(FoundationRule, content))
           /\ Find(result, "@ddd:", 1) = 0
           /\ Find(result, "@foundation:", 1) = 0
    /\ fn = "core_transform_references" =>
           result =
               core_ApplyRule(core_REFERENCE_PATTERNS[4],
                 core_ApplyRule(core_REFERENCE_PATTERNS[3],
                   core_ApplyRule(core_REFERENCE_PATTERNS[2],
                     core_ApplyRule(core_REFERENCE_PATTERNS[1], content))))

\* sync_ddd.transform_references was applied to a reference that the
\* specific rule and the general rule both match
C9_Witness ==
    /\ fn = "ddd_transform_references"
    /\ content = "@ddd:context/P.md)"
    /\ result = "@skills/ddd-guide/references/P.md)"

\* h with every line that starts with "name:" replaced by "name: " and the
\* new name, and every other line, and every newline, as it is
RECURSIVE NameLinesRewritten(_, _)
NameLinesRewritten(h, new) ==
    LET j == Find(h, "\n", 1)
        line == IF j = 0 THEN h ELSE SubSeq(h, 1, j - 1)
        line2 == IF StartsWith(line, "name:") THEN "name: " \o new ELSE line
    IN  IF j = 0 THEN line2
        ELSE line2 \o "\n" \o NameLinesRewritten(From(h, j + 1), new)

\* C10: update_frontmatter_name changes nothing but the value of the header's
\* name field: the other header lines (also the line after a name field whose
\* value is empty or blank), both delimiters and the body are as in the
\* input, and a content without a header block is returned as it is.
C10_OnlyNameFieldRewritten ==
    fn = "update_frontmatter_name" =>
        IF HasHeaderBlock(content)
        THEN result = "---" \o NameLinesRewritten(HeaderInner(content), new_name)
                          \o "---" \o BodyOf(content)
        ELSE result = content

====
